---- MODULE Spec2Model ----
(***************************************************************************)
(* A model of rme/datasets/cifar10.py: the CIFAR-10 loader `load`, the     *)
(* label encoder `one_hotify` and the normalizer `preprocess`.             *)
(*                                                                         *)
(* numpy arrays are modelled the way numpy holds them: a buffer, a shape   *)
(* and strides.  The buffer of an image array is a sequence of flat rows   *)
(* of RowLen elements; a flat row read from a batch file is named by a row *)
(* id and its k-th byte is PixelAt(id, k).  reshape and transpose build    *)
(* views (new shape and strides over the same buffer), slicing and fancy   *)
(* indexing select rows, and At reads one element through the strides.     *)
(***************************************************************************)
EXTENDS Integers, Sequences, FiniteSets, TLC

VARIABLES
  pc,          \* position of load(): the statement executed next
  args,        \* load's arguments: valid_ratio, one_hot, shuffle, dtype
  fs,          \* the directory data_dir: names present and file contents
  files,       \* local `files`
  i,           \* index (1-based) of the batch the for loop is at
  opened,      \* names of the files currently open
  opens,       \* history: names of the files opened so far, in order
  globs,       \* history: number of directory searches made so far
  batch_dict,  \* local `batch_dict`
  data_set,    \* local `data_set`
  labels,      \* local `labels`
  N,           \* local `N`
  new_order,   \* local `new_order`
  M,           \* local `M`
  train_set,   \* local `train_set`
  valid_set,   \* local `valid_set`
  test_set,    \* local `test_set`
  ret,         \* the value load returned
  exc,         \* the exception in flight or raised ("" when none)
  oh,          \* one call of one_hotify: arguments and outcome
  heap,        \* the arrays a caller of preprocess holds, by reference
  pre          \* the caller of preprocess: its reference and what came back

loadvars == <<pc, args, fs, files, i, opened, opens, globs, batch_dict,
              data_set, labels, N, new_order, M, train_set, valid_set,
              test_set, ret, exc>>
vars == <<loadvars, oh, heap, pre>>

-----------------------------------------------------------------------------
(* Program constants *)

Channels == 3
Height == 32
Width == 32
NumBatches == 5
RowLen == Channels * Height * Width

(* Bounds of the model *)

MaxBatch == 2      \* samples per batch file: 0..MaxBatch (one batch may hold one more)
MaxLabel == 1      \* labels in the files are 0..MaxLabel
MaxMissing == 2    \* a directory listing lacks at most this many of the known names
MaxShuffleN == 5   \* shuffle=True is exercised on at most this many training samples
MaxLen == 3        \* length of the label list given to one_hotify alone
MaxImages == 1     \* images in the tensor given to preprocess
MaxRowId == 40     \* row ids of the tensors given to preprocess
MaxSide == 2       \* height and width of the tensors given to preprocess

\* A local not assigned yet: None where it will hold a record, NoInt where it
\* will hold an integer, <<>> where it will hold a sequence.
None == [none |-> TRUE]
NoInt == 0 - 1
NoExc == ""

-----------------------------------------------------------------------------
(* Arithmetic helpers *)

RECURSIVE Prod(_)
Prod(s) == IF Len(s) = 0 THEN 1 ELSE Head(s) * Prod(Tail(s))

\* s[1]*t[1] + ... + s[n]*t[n]
Dot(s, t) ==
  LET RECURSIVE Upto(_)
      Upto(k) == IF k = 0 THEN 0 ELSE s[k] * t[k] + Upto(k - 1)
  IN Upto(Len(s))

MaxOf(s) == CHOOSE m \in {s[j] : j \in 1..Len(s)} : \A j \in 1..Len(s) : s[j] <= m

-----------------------------------------------------------------------------
(* Python floats (IEEE 754 doubles, round to nearest even).  A non-negative *)
(* double is [mant, scale], its value mant * 2^(-scale) exactly; mant is a  *)
(* natural number written in limbs of LimbBits bits, least significant      *)
(* first.                                                                   *)

Significand == 53
LimbBits == 16

Pow2(n) == 2^n

Base == Pow2(LimbBits)

RECURSIVE NatOf(_)
NatOf(a) == IF Len(a) = 0 THEN 0 ELSE Head(a) + Base * NatOf(Tail(a))

RECURSIVE Strip(_)
Strip(a) ==
  IF Len(a) > 0 /\ a[Len(a)] = 0 THEN Strip(SubSeq(a, 1, Len(a) - 1)) ELSE a

Rest(a) == IF Len(a) = 0 THEN <<>> ELSE Tail(a)
Low(a) == IF Len(a) = 0 THEN 0 ELSE Head(a)

\* a + c for a small natural number c
RECURSIVE AddSmall(_, _)
AddSmall(a, c) ==
  IF c = 0
  THEN a
  ELSE LET t == Low(a) + c
       IN <<t % Base>> \o AddSmall(Rest(a), t \div Base)

\* a - b - c for a >= b + c, c a borrow bit
RECURSIVE SubLimbs(_, _, _)
SubLimbs(a, b, c) ==
  IF Len(a) = 0
  THEN <<>>
  ELSE LET t == Low(a) - Low(b) - c
       IN <<t % Base>> \o SubLimbs(Rest(a), Rest(b), IF t < 0 THEN 1 ELSE 0)

\* a * n + c for natural numbers n, c < 2^15
RECURSIVE MulSmall(_, _, _)
MulSmall(a, n, c) ==
  IF Len(a) = 0
  THEN (IF c = 0 THEN <<>> ELSE <<c>>)
  ELSE LET t == Head(a) * n + c
       IN <<t % Base>> \o MulSmall(Tail(a), n, t \div Base)

\* bit k (from 0) of a, and the number of bits of a
Bit(a, k) ==
  IF k \div LimbBits >= Len(a)
  THEN 0
  ELSE (a[k \div LimbBits + 1] \div Pow2(k % LimbBits)) % 2
BitLen(a) ==
  LET m == Strip(a)
  IN IF Len(m) = 0
     THEN 0
     ELSE (Len(m) - 1) * LimbBits
            + CHOOSE k \in 1..LimbBits : Pow2(k - 1) <= m[Len(m)] /\ m[Len(m)] < Pow2(k)

\* some of the low n bits of a is 1
LowBits(a, n) ==
  \/ \E k \in 1..Len(a) : k <= n \div LimbBits /\ a[k] # 0
  \/ /\ n \div LimbBits < Len(a)
     /\ a[n \div LimbBits + 1] % Pow2(n % LimbBits) # 0

\* a \div 2^d
ShiftRight(a, d) ==
  LET w == d \div LimbBits
      b == d % LimbBits
      limb(k) == IF k > Len(a) THEN 0 ELSE a[k]
  IN Strip([k \in 1..(IF Len(a) > w THEN Len(a) - w ELSE 0) |->
              limb(k + w) \div Pow2(b) + (limb(k + w + 1) % Pow2(b)) * Pow2(LimbBits - b)])

\* a * 2^d
ShiftLeft(a, d) ==
  LET w == d \div LimbBits
      b == d % LimbBits
      limb(k) == IF k < 1 \/ k > Len(a) THEN 0 ELSE a[k]
  IN Strip([k \in 1..(IF Len(a) = 0 THEN 0 ELSE Len(a) + w + 1) |->
              (limb(k - w) % Pow2(LimbBits - b)) * Pow2(b)
                + limb(k - w - 1) \div Pow2(LimbBits - b)])

\* a + b + c, c a carry bit
RECURSIVE AddLimbs(_, _, _)
AddLimbs(a, b, c) ==
  IF Len(a) = 0 /\ Len(b) = 0
  THEN (IF c = 0 THEN <<>> ELSE <<c>>)
  ELSE LET t == Low(a) + Low(b) + c
       IN <<t % Base>> \o AddLimbs(Rest(a), Rest(b), t \div Base)

\* a >= b
GE(a, b) ==
  LET n == IF Len(a) > Len(b) THEN Len(a) ELSE Len(b)
      limb(x, k) == IF k > Len(x) THEN 0 ELSE x[k]
  IN ~ \E k \in 1..n : /\ limb(a, k) < limb(b, k)
                       /\ \A j \in (k + 1)..n : limb(a, j) = limb(b, j)

\* mant * 2^(-scale) with mant odd (or zero): the one way to write the value
Canon(mant, scale) ==
  LET m == Strip(mant)
  IN IF Len(m) = 0
     THEN [mant |-> <<>>, scale |-> 0]
     ELSE LET low == CHOOSE k \in 1..Len(m) : m[k] # 0 /\ \A j \in 1..(k - 1) : m[j] = 0
              b == CHOOSE k \in 0..(LimbBits - 1) :
                     m[low] % Pow2(k) = 0 /\ (m[low] \div Pow2(k)) % 2 = 1
              tz == (low - 1) * LimbBits + b
          IN [mant |-> ShiftRight(m, tz), scale |-> scale - tz]

\* The float of `bits` significant bits nearest to mant * 2^(-scale) (plus a
\* positive amount below one unit of mant when `inexact`), ties to even.
RoundTo(mant, scale, inexact, bits) ==
  LET d == BitLen(mant) - bits
  IN IF d <= 0
     THEN Canon(mant, scale)
     ELSE LET kept == ShiftRight(mant, d)
              sticky == inexact \/ LowBits(mant, d - 1)
              up == Bit(mant, d - 1) = 1 /\ (sticky \/ Bit(kept, 0) = 1)
          IN Canon(IF up THEN AddSmall(kept, 1) ELSE kept, scale - d)

RoundDouble(mant, scale, inexact) == RoundTo(mant, scale, inexact, Significand)

\* The first n limbs after the point of r / q for r < q < 2^15 (returned least
\* significant first) and whether a remainder is left.
RECURSIVE FracLimbs(_, _, _)
FracLimbs(r, q, n) ==
  IF n = 0
  THEN [limbs |-> <<>>, inexact |-> r # 0]
  ELSE LET next == FracLimbs((r * Base) % q, q, n - 1)
       IN [limbs |-> Append(next.limbs, (r * Base) \div q),
           inexact |-> next.inexact]

\* The double a literal p/q (0 <= p < 2^15 * q, 0 < q < 2^15) denotes.
FracDigits == 5
FloatOf(p, q) ==
  LET f == FracLimbs(p % q, q, FracDigits)
  IN RoundDouble(f.limbs \o <<p \div q>>, FracDigits * LimbBits, f.inexact)

\* 1 - x for a double 0 <= x <= 1
OneMinus(x) ==
  LET s == IF x.scale < 0 THEN 0 ELSE x.scale
      top == s \div LimbBits + 1
      one == [k \in 1..top |-> IF k = top THEN Pow2(s % LimbBits) ELSE 0]
  IN RoundDouble(SubLimbs(one, x.mant, 0), s, FALSE)

\* x * n for a double x and a natural number n < 2^15
TimesNat(x, n) == RoundDouble(MulSmall(x.mant, n, 0), x.scale, FALSE)

\* int(x) for a double 0 <= x < 2^31
IntOf(x) ==
  IF x.scale >= 0
  THEN NatOf(ShiftRight(x.mant, x.scale))
  ELSE NatOf(x.mant) * Pow2(0 - x.scale)

-----------------------------------------------------------------------------
(* Image arrays *)

\* The k-th byte (k in 0..RowLen-1) of the flat row with id `id` of a batch file.
PixelAt(id, k) == (id * 37 + k * 7 + (k \div 256) * 3) % 256

\* ndarray.astype on one element read from the file's uint8 data.
AsType(v, dtype) == IF dtype = "int8" /\ v >= 128 THEN v - 256 ELSE v

\* C-order strides (in elements) of an array of the given shape.
CStrides(shape) ==
  [k \in 1..Len(shape) |-> Prod(SubSeq(shape, k + 1, Len(shape)))]

\* The (n, RowLen) array a batch file holds under key 'data'.
FileArray(ids) ==
  [rows |-> ids, dtype |-> "uint8",
   shape |-> <<Len(ids), RowLen>>, strides |-> <<RowLen, 1>>]

astype(a, dtype) == [a EXCEPT !.dtype = dtype]

vstack(a, b) ==
  [a EXCEPT !.rows = a.rows \o b.rows, !.shape[1] = a.shape[1] + b.shape[1]]

\* a[order] for a sequence `order` of 0-based row indices.
TakeRows(a, order) ==
  [a EXCEPT !.rows = [k \in 1..Len(order) |-> a.rows[order[k] + 1]],
            !.shape[1] = Len(order)]

\* a[lo:hi]
SliceRows(a, lo, hi) ==
  [a EXCEPT !.rows = SubSeq(a.rows, lo + 1, hi), !.shape[1] = hi - lo]

\* a.reshape(shape) of a C-contiguous array; one entry of shape may be -1.
reshape(a, shape) ==
  LET size  == Prod(a.shape)
      known == Prod([k \in 1..Len(shape) |-> IF shape[k] = -1 THEN 1 ELSE shape[k]])
      full  == [k \in 1..Len(shape) |->
                  IF shape[k] = -1 THEN size \div known ELSE shape[k]]
  IN [a EXCEPT !.shape = full, !.strides = CStrides(full)]

\* a.transpose(axes), axes 0-based.
transpose(a, axes) ==
  [a EXCEPT !.shape = [k \in 1..Len(axes) |-> a.shape[axes[k] + 1]],
            !.strides = [k \in 1..Len(axes) |-> a.strides[axes[k] + 1]]]

\* Mutant of ToImages: reshapes straight to channel-last, without the transpose.
ToImagesNoTranspose(a) == reshape(a, <<-1, Height, Width, Channels>>)

\* .reshape((-1, 3, 32, 32)).transpose((0, 2, 3, 1))
ToImages(a) ==
  transpose(reshape(a, <<-1, Channels, Height, Width>>), <<0, 2, 3, 1>>)

\* The element of array `a` at the 0-based index tuple idx.
At(a, idx) ==
  LET off == Dot(idx, a.strides)
  IN AsType(PixelAt(a.rows[(off \div RowLen) + 1], off % RowLen), a.dtype)

-----------------------------------------------------------------------------
(* Label arrays: a shape and the values (a sequence of ints, or of rows) *)

LabelArray(lbls) == [shape |-> <<Len(lbls)>>, vals |-> lbls]

Failed(e) == [err |-> e, shape |-> <<>>, vals |-> <<>>]

\* Mutant of one_hotify: infers the class count as max(labels), without the + 1.
one_hotifyNarrow(lbls, nb_classes) ==
  LET size == Len(lbls)
      k == IF nb_classes = <<>> THEN (IF size = 0 THEN 0 ELSE MaxOf(lbls))
           ELSE nb_classes[1]
  IN IF \E j \in 1..size : lbls[j] >= k \/ lbls[j] < 0 - k
     THEN Failed("IndexError")
     ELSE [err |-> NoExc, shape |-> <<size, k>>,
           vals |-> [j \in 1..size |->
                      [c \in 1..k |->
                         IF c - 1 = (IF lbls[j] < 0 THEN lbls[j] + k ELSE lbls[j])
                         THEN 1 ELSE 0]]]

\* one_hotify(labels, nb_classes); nb_classes is <<>> for None, <<k>> for k.
one_hotify(lbls, nb_classes) ==
  LET size == Len(lbls) IN
  IF nb_classes = <<>> /\ size = 0
  THEN Failed("ValueError")
  ELSE
    LET k == IF nb_classes = <<>> THEN MaxOf(lbls) + 1 ELSE nb_classes[1] IN
    IF k < 0
    THEN Failed("ValueError")
    ELSE IF \E j \in 1..size : lbls[j] >= k \/ lbls[j] < 0 - k
    THEN Failed("IndexError")
    ELSE [err |-> NoExc, shape |-> <<size, k>>,
          vals |-> [j \in 1..size |->
                     [c \in 1..k |->
                        IF c - 1 = (IF lbls[j] < 0 THEN lbls[j] + k ELSE lbls[j])
                        THEN 1 ELSE 0]]]

\* np.concatenate((a, b), axis=0)
concatenate(a, b) ==
  IF Len(a.shape) # Len(b.shape) \/ Tail(a.shape) # Tail(b.shape)
  THEN Failed("ValueError")
  ELSE [err |-> NoExc, shape |-> <<a.shape[1] + b.shape[1]>> \o Tail(a.shape),
        vals |-> a.vals \o b.vals]

\* Mutant of TakeLabels: the labels are left in their old order.
TakeLabelsKeep(a, order) == a

\* labels[new_order]
TakeLabels(a, order) ==
  [a EXCEPT !.vals = [k \in 1..Len(order) |-> a.vals[order[k] + 1]],
            !.shape[1] = Len(order)]

SliceLabels(a, lo, hi) ==
  [a EXCEPT !.vals = SubSeq(a.vals, lo + 1, hi), !.shape[1] = hi - lo]

\* The labels of a batch as load encodes them (lines 74-78, 113-116).
EncodeLabels(lbls, one_hot) ==
  IF one_hot THEN one_hotify(lbls, <<>>)
  ELSE [err |-> NoExc] @@ LabelArray(lbls)

-----------------------------------------------------------------------------
(* The directory *)

DataBatch(sfx) == [stem |-> "data_batch_", suffix |-> sfx]
Digits == <<"1", "2", "3", "4", "5">>
\* os.path.join(data_dir, 'data_batch_%d' % (i+1))
BatchName(k) == DataBatch(Digits[k])
TestName == [stem |-> "test_batch", suffix |-> ""]
\* glob 'data_batch_*'
MatchesGlob(f) == f.stem = "data_batch_"

KnownNames == {BatchName(k) : k \in 1..NumBatches} \cup {DataBatch("6"), TestName}
StdListing == {BatchName(k) : k \in 1..NumBatches} \cup {TestName}

\* Sample g (1-based, in the order of concatenation) of the training data has row
\* id g; sample j of the test batch has row id 100 + j.
LabelOf(pat, g) ==
  IF pat.kind = "const" THEN pat.c ELSE (pat.c + g) % (MaxLabel + 1)

Patterns == [kind : {"const", "cyc"}, c : 0..MaxLabel]

\* Batch b holds n samples, batch `long` one more; the test batch holds t.
BatchSize(n, long, b) == n + (IF b = long THEN 1 ELSE 0)
FirstOf(n, long, b) == (b - 1) * n + (IF long # 0 /\ long < b THEN 1 ELSE 0)

\* pickle.load runs what the bytes of the file tell it to, so on a file that
\* does not deserialize it can raise an exception of any class (EOFError on an
\* empty file, UnpicklingError, ValueError, UnicodeDecodeError, LookupError,
\* ZeroDivisionError, ... and classes the pickle itself brings along).  load
\* names no class: it has no try/except, and leaving the with block closes the
\* file on every exception.  The exception is therefore recorded as an instance
\* of BaseException, the class of which every Python exception is an instance;
\* no class below it is chosen, so a file raising any class is covered.
PickleException == "BaseException"

Content(n, long, t, pat, corrupt) ==
  [f \in KnownNames |->
     IF f = TestName
     THEN [ok |-> f # corrupt,
           data |-> [j \in 1..t |-> 100 + j],
           labels |-> [j \in 1..t |-> LabelOf(pat, j)]]
     ELSE LET b == CHOOSE k \in 1..(NumBatches + 1) :
                     f = IF k <= NumBatches THEN BatchName(k) ELSE DataBatch("6")
              s == IF b <= NumBatches THEN BatchSize(n, long, b) ELSE 0
              g0 == IF b <= NumBatches THEN FirstOf(n, long, b) ELSE 0
          IN [ok |-> f # corrupt,
              data |-> [j \in 1..s |-> g0 + j],
              labels |-> [j \in 1..s |-> LabelOf(pat, g0 + j)]]]

DefaultContent == Content(1, 0, 1, [kind |-> "const", c |-> 0], None)

TotalSamples(d) ==
  LET RECURSIVE Sum(_)
      Sum(k) == IF k = 0 THEN 0 ELSE Len(d.content[BatchName(k)].data) + Sum(k - 1)
  IN Sum(NumBatches)

Directories ==
  \* listings lacking some names (or everything: data_dir does not exist)
  { [listing |-> L, content |-> DefaultContent] :
      L \in {L \in SUBSET KnownNames : Cardinality(KnownNames \ L) <= MaxMissing}
            \cup {{}} }
  \cup
  \* the standard directory with one file that does not deserialize
  { [listing |-> StdListing, content |-> Content(1, 0, 1, [kind |-> "const", c |-> 0], f)] :
      f \in StdListing }
  \cup
  \* the standard directory with every content of the family
  { [listing |-> StdListing, content |-> Content(n, long, (n + long) % (MaxBatch + 1), pat, None)] :
      n \in 0..MaxBatch, long \in 0..NumBatches, pat \in Patterns }

\* valid_ratio as the caller writes it: the decimal literal num/den
Ratios == {[num |-> k, den |-> 10] : k \in {-1, 0, 5, 9, 10}}
DTypes == {"float32", "int8"}

Arguments ==
  [valid_ratio : Ratios, one_hot : BOOLEAN, shuffle : BOOLEAN, dtype : DTypes]

-----------------------------------------------------------------------------
(* load *)

InitOther ==
  /\ oh = None
  /\ heap = <<>>
  /\ pre = None

Init ==
  /\ pc = "assert_ratio"
  /\ args \in Arguments
  /\ fs \in Directories
  /\ args.shuffle => (TotalSamples(fs) <= MaxShuffleN /\ args.dtype = "float32")
  /\ files = None
  /\ i = NoInt
  /\ opened = {}
  /\ opens = <<>>
  /\ globs = 0
  /\ batch_dict = None
  /\ data_set = None
  /\ labels = None
  /\ N = NoInt
  /\ new_order = <<>>
  /\ M = NoInt
  /\ train_set = None
  /\ valid_set = None
  /\ test_set = None
  /\ ret = <<>>
  /\ exc = NoExc
  /\ InitOther

\* Mutant of ValidRatio: accepts valid_ratio = 1.
ValidRatioInclusive(r) == r.num <= r.den /\ r.num >= 0

\* line 54: assert valid_ratio < 1 and valid_ratio >= 0
ValidRatio(r) == r.num < r.den /\ r.num >= 0

CheckRatio ==
  /\ pc = "assert_ratio"
  /\ IF ValidRatio(args.valid_ratio)
     THEN pc' = "glob" /\ exc' = exc
     ELSE pc' = "raised" /\ exc' = "AssertionError"
  /\ UNCHANGED <<args, fs, files, i, opened, opens, globs, batch_dict, data_set,
                 labels, N, new_order, M, train_set, valid_set, test_set, ret,
                 oh, heap, pre>>

\* Mutant of Glob: the count check is left out.
GlobUnchecked ==
  /\ pc = "glob"
  /\ globs' = globs + 1
  /\ files' = [k \in 1..NumBatches |-> BatchName(k)]
  /\ i' = 1
  /\ pc' = "open"
  /\ UNCHANGED <<args, fs, opened, opens, batch_dict, data_set, labels, N,
                 new_order, M, train_set, valid_set, test_set, ret, exc,
                 oh, heap, pre>>

\* lines 55-57: the directory search, the count check, the explicit list
Glob ==
  /\ pc = "glob"
  /\ globs' = globs + 1
  /\ LET found == {f \in fs.listing : MatchesGlob(f)} IN
       IF Cardinality(found) = NumBatches
       THEN /\ files' = [k \in 1..NumBatches |-> BatchName(k)]
            /\ i' = 1
            /\ pc' = "open"
            /\ exc' = exc
       ELSE /\ files' = found
            /\ i' = i
            /\ pc' = "raised"
            /\ exc' = "AssertionError"
  /\ UNCHANGED <<args, fs, opened, opens, batch_dict, data_set, labels, N,
                 new_order, M, train_set, valid_set, test_set, ret, oh, heap, pre>>

\* line 62: open(f_name, 'rb')
OpenFile(f, then) ==
  IF f \in fs.listing
  THEN /\ opened' = opened \cup {f}
       /\ opens' = Append(opens, f)
       /\ pc' = then
       /\ exc' = exc
  ELSE /\ opened' = opened
       /\ opens' = opens
       /\ pc' = "raised"
       /\ exc' = "FileNotFoundError"

OpenBatch ==
  /\ pc = "open"
  /\ OpenFile(files[i], "load")
  /\ UNCHANGED <<args, fs, files, i, globs, batch_dict, data_set, labels, N,
                 new_order, M, train_set, valid_set, test_set, ret, oh, heap, pre>>

\* pickle.load(f): the file's record, or an exception (of whatever class) when
\* the file does not deserialize
Unpickle(f, then, unwind) ==
  IF fs.content[f].ok
  THEN /\ batch_dict' = [data |-> FileArray(fs.content[f].data),
                         labels |-> fs.content[f].labels]
       /\ pc' = then
       /\ exc' = exc
  ELSE /\ batch_dict' = batch_dict
       /\ pc' = unwind
       /\ exc' = PickleException

\* line 64
LoadBatch ==
  /\ pc = "load"
  /\ Unpickle(files[i], "close", "close")
  /\ UNCHANGED <<args, fs, files, i, opened, opens, globs, data_set, labels, N,
                 new_order, M, train_set, valid_set, test_set, ret, oh, heap, pre>>

\* Mutant of CloseFile: the file is closed only when no exception is in flight.
CloseFileOnSuccess(f, then) ==
  /\ opened' = IF exc = NoExc THEN opened \ {f} ELSE opened
  /\ pc' = IF exc = NoExc THEN then ELSE "raised"

\* leaving a `with open(...) as f:` block closes f, an exception in flight or not
CloseFile(f, then) ==
  /\ opened' = opened \ {f}
  /\ pc' = IF exc = NoExc THEN then ELSE "raised"

\* the end of the with block of lines 62-64
CloseBatch ==
  /\ pc = "close"
  /\ CloseFile(files[i], "stack")
  /\ UNCHANGED <<args, fs, files, i, opens, globs, batch_dict, data_set, labels,
                 N, new_order, M, train_set, valid_set, test_set, ret, exc,
                 oh, heap, pre>>

\* lines 65-70
StackData ==
  /\ pc = "stack"
  /\ data_set' = IF data_set = None
                 THEN astype(batch_dict.data, args.dtype)
                 ELSE vstack(data_set, astype(batch_dict.data, args.dtype))
  /\ pc' = "labels"
  /\ UNCHANGED <<args, fs, files, i, opened, opens, globs, batch_dict, labels, N,
                 new_order, M, train_set, valid_set, test_set, ret, exc,
                 oh, heap, pre>>

\* lines 74-84, and the for loop's step
StackLabels ==
  /\ pc = "labels"
  /\ LET batch_labels == EncodeLabels(batch_dict.labels, args.one_hot)
         stacked == IF batch_labels.err # NoExc \/ labels = None
                    THEN batch_labels
                    ELSE concatenate(labels, batch_labels)
     IN IF stacked.err # NoExc
        THEN /\ labels' = labels
             /\ i' = i
             /\ pc' = "raised"
             /\ exc' = stacked.err
        ELSE /\ labels' = [shape |-> stacked.shape, vals |-> stacked.vals]
             /\ i' = IF i < NumBatches THEN i + 1 ELSE i
             /\ pc' = IF i < NumBatches THEN "open" ELSE "shuffle"
             /\ exc' = exc
  /\ UNCHANGED <<args, fs, files, opened, opens, globs, batch_dict, data_set, N,
                 new_order, M, train_set, valid_set, test_set, ret, oh, heap, pre>>

\* lines 86-91
Shuffle ==
  /\ pc = "shuffle"
  /\ N' = data_set.shape[1]
  /\ IF args.shuffle
     THEN \E p \in Permutations(1..N') :
            /\ new_order' = [k \in 1..N' |-> p[k] - 1]
            /\ data_set' = TakeRows(data_set, new_order')
            /\ labels' = TakeLabels(labels, new_order')
     ELSE UNCHANGED <<new_order, data_set, labels>>
  /\ pc' = "split"
  /\ UNCHANGED <<args, fs, files, i, opened, opens, globs, batch_dict, M,
                 train_set, valid_set, test_set, ret, exc, oh, heap, pre>>

\* line 94: int((1 - valid_ratio)*N)
SplitIndex(r, n) == IntOf(TimesNat(OneMinus(FloatOf(r.num, r.den)), n))

\* lines 94-104
Split ==
  /\ pc = "split"
  /\ M' = SplitIndex(args.valid_ratio, N)
  /\ train_set' = [data |-> ToImages(SliceRows(data_set, 0, M')),
                   labels |-> SliceLabels(labels, 0, M')]
  /\ valid_set' = [data |-> ToImages(SliceRows(data_set, M', N)),
                   labels |-> SliceLabels(labels, M', N)]
  /\ pc' = "open_test"
  /\ UNCHANGED <<args, fs, files, i, opened, opens, globs, batch_dict, data_set,
                 labels, N, new_order, test_set, ret, exc, oh, heap, pre>>

\* lines 108-109
OpenTest ==
  /\ pc = "open_test"
  /\ OpenFile(TestName, "load_test")
  /\ UNCHANGED <<args, fs, files, i, globs, batch_dict, data_set, labels, N,
                 new_order, M, train_set, valid_set, test_set, ret, oh, heap, pre>>

\* line 110
LoadTest ==
  /\ pc = "load_test"
  /\ Unpickle(TestName, "test_set", "close_test")
  /\ UNCHANGED <<args, fs, files, i, opened, opens, globs, data_set, labels, N,
                 new_order, M, train_set, valid_set, test_set, ret, oh, heap, pre>>

\* Mutant of TestData: the test data is cut at the split index M.
TestDataSplit(d) ==
  ToImages(SliceRows(astype(d, args.dtype), 0, IF M < d.shape[1] THEN M ELSE d.shape[1]))

\* lines 111-112
TestData(d) == ToImages(astype(d, args.dtype))

\* lines 111-116
BuildTest ==
  /\ pc = "test_set"
  /\ LET images == TestData(batch_dict.data)
         encoded == EncodeLabels(batch_dict.labels, args.one_hot)
     IN IF encoded.err # NoExc
        THEN /\ test_set' = [data |-> images]
             /\ exc' = encoded.err
        ELSE /\ test_set' = [data |-> images,
                             labels |-> [shape |-> encoded.shape, vals |-> encoded.vals]]
             /\ exc' = exc
  /\ pc' = "close_test"
  /\ UNCHANGED <<args, fs, files, i, opened, opens, globs, batch_dict, data_set,
                 labels, N, new_order, M, train_set, valid_set, ret, oh, heap, pre>>

\* the end of the with block of lines 109-116
CloseTest ==
  /\ pc = "close_test"
  /\ CloseFile(TestName, "return")
  /\ UNCHANGED <<args, fs, files, i, opens, globs, batch_dict, data_set, labels,
                 N, new_order, M, train_set, valid_set, test_set, ret, exc,
                 oh, heap, pre>>

\* line 118
Return ==
  /\ pc = "return"
  /\ ret' = <<train_set, valid_set, test_set>>
  /\ pc' = "done"
  /\ UNCHANGED <<args, fs, files, i, opened, opens, globs, batch_dict, data_set,
                 labels, N, new_order, M, train_set, valid_set, test_set, exc,
                 oh, heap, pre>>

Next ==
  \/ CheckRatio
  \/ Glob
  \/ OpenBatch
  \/ LoadBatch
  \/ CloseBatch
  \/ StackData
  \/ StackLabels
  \/ Shuffle
  \/ Split
  \/ OpenTest
  \/ LoadTest
  \/ BuildTest
  \/ CloseTest
  \/ Return

Spec == Init /\ [][Next]_vars

-----------------------------------------------------------------------------
(* one_hotify called on its own *)

Idle ==
  /\ pc = "idle"
  /\ args = None /\ fs = None /\ files = None /\ i = NoInt
  /\ opened = {} /\ opens = <<>> /\ globs = 0
  /\ batch_dict = None /\ data_set = None /\ labels = None
  /\ N = NoInt /\ new_order = <<>> /\ M = NoInt
  /\ train_set = None /\ valid_set = None /\ test_set = None
  /\ ret = <<>> /\ exc = NoExc

LabelLists == UNION {[1..n -> -1..MaxLabel] : n \in 0..MaxLen}
ClassCounts == {<<>>} \cup {<<k>> : k \in 0..(MaxLabel + 1)}

InitOneHot ==
  /\ Idle
  /\ oh \in [pc : {"call"}, labels : LabelLists, nb_classes : ClassCounts,
             out : {None}]
  /\ heap = <<>>
  /\ pre = None

CallOneHot ==
  /\ oh.pc = "call"
  /\ LET out == one_hotify(oh.labels, oh.nb_classes)
     IN oh' = [oh EXCEPT !.pc = IF out.err = NoExc THEN "returned" ELSE "raised",
                         !.out = out]
  /\ UNCHANGED <<loadvars, heap, pre>>

SpecOneHot == InitOneHot /\ [][CallOneHot]_vars

-----------------------------------------------------------------------------
(* preprocess *)

\* Array elements are float32 values [neg, mant, scale], the number
\* (-1)^neg * mant * 2^(-scale) with mant odd in limbs (zero: mant = <<>>).
Significand32 == 24

Signed(neg, x) ==
  [neg |-> neg /\ x.mant # <<>>, mant |-> x.mant, scale |-> x.scale]

\* the float that holds the integer n >= 0
FloatOfNat(n) == Signed(FALSE, Canon(IF n = 0 THEN <<>> ELSE <<n % Base, n \div Base>>, 0))

\* x - y exactly
ExactSub(x, y) ==
  LET s == IF x.scale > y.scale THEN x.scale ELSE y.scale
      ax == Strip(ShiftLeft(x.mant, s - x.scale))
      ay == Strip(ShiftLeft(y.mant, s - y.scale))
  IN IF ax = <<>>
     THEN [neg |-> ~y.neg, mant |-> ay, scale |-> s]
     ELSE IF ay = <<>> \/ x.neg # y.neg
     THEN [neg |-> x.neg, mant |-> Strip(AddLimbs(ax, ay, 0)), scale |-> s]
     ELSE IF GE(ax, ay)
     THEN [neg |-> x.neg, mant |-> Strip(SubLimbs(ax, ay, 0)), scale |-> s]
     ELSE [neg |-> ~x.neg, mant |-> Strip(SubLimbs(ay, ax, 0)), scale |-> s]

\* x - y in double precision
FloatSub(x, y) ==
  LET d == ExactSub(x, y)
  IN Signed(d.neg, RoundDouble(d.mant, d.scale, FALSE))

\* floor(a / b) and the remainder, b > 0, by long division in base 2^DigitBits.
\* The digit is guessed from the leading bits of the remainder and of b; the
\* guess is the digit or one more.
DigitBits == 4
GuessBits == 24
Digit(a, k) == (a[k \div (LimbBits \div DigitBits) + 1]
                  \div Pow2(DigitBits * (k % (LimbBits \div DigitBits)))) % Pow2(DigitBits)
RECURSIVE DivSteps(_, _, _, _, _)
DivSteps(a, b, k, quot, rem) ==
  IF k < 0
  THEN [quot |-> Strip(quot), rem |-> Strip(rem)]
  ELSE LET r == Strip(MulSmall(rem, Pow2(DigitBits), Digit(a, k)))
           cut == IF BitLen(b) > GuessBits THEN BitLen(b) - GuessBits ELSE 0
           guess == NatOf(ShiftRight(r, cut)) \div NatOf(ShiftRight(b, cut))
           q == IF GE(r, Strip(MulSmall(b, guess, 0))) THEN guess ELSE guess - 1
       IN DivSteps(a, b, k - 1, MulSmall(quot, Pow2(DigitBits), q),
                   SubLimbs(r, Strip(MulSmall(b, q, 0)), 0))
DivLimbs(a, b) ==
  DivSteps(a, b, Len(a) * (LimbBits \div DigitBits) - 1, <<>>, <<>>)

\* x / y in double precision, y # 0
FloatDiv(x, y) ==
  IF x.mant = <<>>
  THEN Signed(FALSE, Canon(<<>>, 0))
  ELSE LET k == Significand + 2 + BitLen(y.mant) - BitLen(x.mant)
           d == DivLimbs(Strip(ShiftLeft(x.mant, k)), y.mant)
       IN Signed(x.neg # y.neg,
                 RoundDouble(d.quot, k + x.scale - y.scale, d.rem # <<>>))

\* storing a double in a float32 array
Float32(x) == Signed(x.neg, RoundTo(x.mant, x.scale, FALSE, Significand32))

\* mean and std of lines 122-123 as written, in tenths, and the float64 arrays
\* np.array makes of them
Mean10 == <<1253, 1230, 1139>>
Std10 == <<630, 621, 667>>
mean == [ch \in 1..Channels |-> Signed(FALSE, FloatOf(Mean10[ch], 10))]
std == [ch \in 1..Channels |-> Signed(FALSE, FloatOf(Std10[ch], 10))]

\* One element of `dataset -= mean` and of `dataset /= std`: the float32 element
\* and the float64 operand give a float64 result, stored back as float32.
ElemSub(x, ch) == Float32(FloatSub(x, mean[ch]))
ElemDiv(x, ch) == Float32(FloatDiv(x, std[ch]))

\* a[:, :h, :w, :]
Crop(a, h, w) == [a EXCEPT !.shape = <<a.shape[1], h, w, a.shape[4]>>]

\* The image array `a` with its elements written out: vals[n][r][c][ch], 1-based.
Tensor(a) ==
  [shape |-> a.shape,
   vals |-> [n \in 1..a.shape[1] |-> [r \in 1..a.shape[2] |->
              [c \in 1..a.shape[3] |-> [ch \in 1..a.shape[4] |->
                 FloatOfNat(At(a, <<n - 1, r - 1, c - 1, ch - 1>>))]]]]]

\* line 125: dataset -= mean, mean broadcast over the last axis
SubMean(t) ==
  [t EXCEPT !.vals = [n \in 1..t.shape[1] |-> [r \in 1..t.shape[2] |->
                       [c \in 1..t.shape[3] |-> [ch \in 1..t.shape[4] |->
                          ElemSub(t.vals[n][r][c][ch], ch)]]]]]

\* line 126: dataset /= std, std broadcast over the last axis
DivStd(t) ==
  [t EXCEPT !.vals = [n \in 1..t.shape[1] |-> [r \in 1..t.shape[2] |->
                       [c \in 1..t.shape[3] |-> [ch \in 1..t.shape[4] |->
                          ElemDiv(t.vals[n][r][c][ch], ch)]]]]]

\* Mutant of preprocess: normalizes a copy and returns the copy.
preprocessCopy(h, dataset) ==
  [heap |-> Append(h, DivStd(SubMean(h[dataset]))), ret |-> Len(h) + 1]

\* preprocess(dataset) on the heap h, dataset a reference: the heap after the
\* call and the reference returned.
preprocess(h, dataset) ==
  [heap |-> [h EXCEPT ![dataset] = DivStd(SubMean(h[dataset]))],
   ret |-> dataset]

\* The tensors a caller passes: the top left corner, side x side pixels, of the
\* images load yields for n consecutive file rows.
InputTensors ==
  {Tensor(Crop(ToImages(astype(FileArray([j \in 1..n |-> s + j - 1]), "float32")),
               side, side)) :
     s \in 1..MaxRowId, n \in 0..MaxImages, side \in 1..MaxSide}

InitPre ==
  /\ Idle
  /\ oh = None
  /\ \E t \in InputTensors :
       /\ heap = <<t>>
       /\ pre = [dataset |-> 1, original |-> t, returned |-> <<>>, seen |-> <<>>]

\* The caller calls preprocess on its array (at most twice here).
CallPreprocess ==
  /\ Len(pre.returned) < 2
  /\ \E out \in {preprocess(heap, pre.dataset)} :
        /\ heap' = out.heap
        /\ pre' = [pre EXCEPT !.returned = Append(@, out.ret),
                              !.seen = Append(@, out.heap[out.ret])]
  /\ UNCHANGED <<loadvars, oh>>

SpecPre == InitPre /\ [][CallPreprocess]_vars

-----------------------------------------------------------------------------
(* load with shuffle=False and the default dtype *)

InitImage ==
  /\ Init
  /\ ~args.shuffle
  /\ args.dtype = "float32"

SpecImage == InitImage /\ [][Next]_vars

-----------------------------------------------------------------------------
(* Properties *)

RECURSIVE SeqSum(_)
SeqSum(s) == IF Len(s) = 0 THEN 0 ELSE Head(s) + SeqSum(Tail(s))


\* The rows and the labels of data_batch_1..data_batch_k, in that order.
RECURSIVE FileRowsTo(_)
FileRowsTo(k) ==
  IF k = 0 THEN <<>> ELSE FileRowsTo(k - 1) \o fs.content[BatchName(k)].data
RECURSIVE FileLabelsTo(_)
FileLabelsTo(k) ==
  IF k = 0 THEN <<>> ELSE FileLabelsTo(k - 1) \o fs.content[BatchName(k)].labels

\* val is the entry of a label array that stands for the integer label l.
Encodes(val, l) ==
  IF args.one_hot
  THEN \A c \in 1..Len(val) : val[c] = (IF c = l + 1 THEN 1 ELSE 0)
  ELSE val = l

GlobCount == Cardinality({f \in fs.listing : f.stem = "data_batch_"})
RatioInRange == args.valid_ratio.num >= 0 /\ args.valid_ratio.num < args.valid_ratio.den

\* C1: for a label list L with values in [0,k), one_hotify(L,k) is a Len(L) x k
\* matrix whose row j has a 1 at column L[j] and 0 elsewhere, so each row sums
\* to 1; with no class count given, k is max(L)+1.
C1_OneHotMatrix ==
  LET L == oh.labels
      given == oh.nb_classes # <<>>
      inRange == IF given
                 THEN \A j \in 1..Len(L) : L[j] >= 0 /\ L[j] < oh.nb_classes[1]
                 ELSE Len(L) > 0 /\ \A j \in 1..Len(L) : L[j] >= 0
  IN (oh.pc # "call" /\ inRange) =>
       /\ oh.pc = "returned"
       /\ Len(oh.out.shape) = 2
       /\ oh.out.shape[1] = Len(L)
       /\ Len(oh.out.vals) = Len(L)
       /\ given => oh.out.shape[2] = oh.nb_classes[1]
       /\ ~given => /\ \E j \in 1..Len(L) : L[j] = oh.out.shape[2] - 1
                    /\ \A j \in 1..Len(L) : L[j] <= oh.out.shape[2] - 1
       /\ \A j \in 1..Len(L) :
            /\ Len(oh.out.vals[j]) = oh.out.shape[2]
            /\ \A c \in 1..oh.out.shape[2] :
                 oh.out.vals[j][c] = (IF c - 1 = L[j] THEN 1 ELSE 0)
            /\ SeqSum(oh.out.vals[j]) = 1

C1_Witness ==
  /\ oh.pc = "returned"
  /\ oh.nb_classes = <<>>
  /\ oh.labels = <<1, 0>>
  /\ oh.out.vals = << <<0, 1>>, <<1, 0>> >>

\* The split made with the index M the code computed: train_set holds the first
\* M rows and valid_set the other N - M rows of the (optionally shuffled)
\* concatenation of batches 1..5, in order; the splits are disjoint, together
\* they are all N samples, and data and labels of a split have the same row
\* count.
SplitsPartition ==
  train_set # None =>
    LET tr == train_set
        va == valid_set
        all == FileRowsTo(NumBatches)
    IN /\ N = Len(all)
       /\ M \in 0..N
       /\ tr.data.shape[1] = M /\ Len(tr.data.rows) = M
       /\ tr.labels.shape[1] = M /\ Len(tr.labels.vals) = M
       /\ va.data.shape[1] = N - M /\ Len(va.data.rows) = N - M
       /\ va.labels.shape[1] = N - M /\ Len(va.labels.vals) = N - M
       /\ tr.data.rows \o va.data.rows = data_set.rows
       /\ tr.labels.vals \o va.labels.vals = labels.vals
       /\ {tr.data.rows[k] : k \in 1..M} \cap {va.data.rows[k] : k \in 1..(N - M)} = {}
       /\ {data_set.rows[k] : k \in 1..N} = {all[k] : k \in 1..N}
       /\ ~args.shuffle =>
            /\ tr.data.rows \o va.data.rows = all
            /\ \A k \in 1..N :
                 Encodes((tr.labels.vals \o va.labels.vals)[k], FileLabelsTo(NumBatches)[k])

\* C2: once load has split the data, M = floor((1 - valid_ratio) * N) for the
\* ratio num/den the caller wrote, train_set holds the first M rows and
\* valid_set the other N - M rows, the splits are disjoint and cover all N
\* samples (N = 10: ratio 0 gives 10/0, ratio 0.5 gives 5/5).
C2_Split ==
  train_set # None =>
    LET r == args.valid_ratio
    IN /\ M * r.den <= (r.den - r.num) * N
       /\ (r.den - r.num) * N < (M + 1) * r.den
       /\ SplitsPartition
       /\ (N = 10 /\ r.num = 0) => (M = 10 /\ Len(valid_set.data.rows) = 0)
       /\ (N = 10 /\ 2 * r.num = r.den) => (M = 5 /\ Len(valid_set.data.rows) = 5)

\* C3: with shuffle=True, data rows and label rows are reordered by the same
\* permutation new_order of 0..N-1: row k of the shuffled set is sample
\* new_order[k] of the unshuffled one with its own label, every sample of the
\* unshuffled set is exactly once in train_set or valid_set, and each label
\* value occurs as often after the shuffle as before.
C3_ShufflePairs ==
  (args.shuffle /\ N # NoInt) =>
    LET rows0 == FileRowsTo(NumBatches)
        labels0 == FileLabelsTo(NumBatches)
    IN /\ Len(new_order) = N
       /\ {new_order[k] : k \in 1..N} = 0..(N - 1)
       /\ data_set.dtype = args.dtype
       /\ \A k \in 1..N :
            /\ data_set.rows[k] = rows0[new_order[k] + 1]
            /\ Encodes(labels.vals[k], labels0[new_order[k] + 1])
       /\ \A l \in 0..MaxLabel :
            Cardinality({k \in 1..N : Encodes(labels.vals[k], l)})
              = Cardinality({k \in 1..N : labels0[k] = l})
       /\ train_set # None =>
            LET rows1 == train_set.data.rows \o valid_set.data.rows
                labels1 == train_set.labels.vals \o valid_set.labels.vals
            IN \A g \in 1..N :
                 /\ Cardinality({k \in 1..Len(rows1) : rows1[k] = rows0[g]}) = 1
                 /\ \A k \in 1..Len(rows1) :
                      rows1[k] = rows0[g] => Encodes(labels1[k], labels0[g])

C3_Witness ==
  /\ pc = "done"
  /\ args.shuffle
  /\ ~args.one_hot
  /\ new_order = <<3, 0, 4, 1, 2>>
  /\ FileLabelsTo(NumBatches) = <<1, 0, 1, 0, 1>>
  /\ train_set.labels.vals \o valid_set.labels.vals = <<0, 1, 1, 0, 1>>
  /\ Len(valid_set.data.rows) = 3

\* C4: in each of train_set, valid_set and test_set, image n is the flat row n
\* of the split read as (3, 32, 32) and transposed to (32, 32, 3): for all r, c
\* in 0..31 and ch in 0..2, image[r][c][ch] = flat[ch*1024 + r*32 + c].
ImagesOf(split, flat) ==
  /\ split.data.shape = <<Len(flat), 32, 32, 3>>
  /\ \A n \in 1..Len(flat) : \A r \in 0..31 : \A c \in 0..31 : \A ch \in 0..2 :
       At(split.data, <<n - 1, r, c, ch>>)
         = AsType(PixelAt(flat[n], ch * 1024 + r * 32 + c), args.dtype)

C4_Images ==
  pc = "done" =>
    /\ ImagesOf(ret[1], SubSeq(data_set.rows, 1, M))
    /\ ImagesOf(ret[2], SubSeq(data_set.rows, M + 1, N))
    /\ ImagesOf(ret[3], fs.content[TestName].data)

C4_Witness ==
  /\ pc = "done"
  /\ Len(ret[1].data.rows) >= 1
  /\ Len(ret[2].data.rows) >= 1
  /\ Len(ret[3].data.rows) >= 1
  /\ At(ret[1].data, <<0, 1, 2, 1>>) = PixelAt(data_set.rows[1], 1024 + 32 + 2)
  /\ At(ret[1].data, <<0, 1, 2, 1>>) # At(ret[1].data, <<0, 2, 1, 1>>)

\* C5: with valid_ratio outside [0,1), load raises an assertion error before
\* any file is read: no directory search, no file opened, nothing returned.
C5_BadRatio ==
  (args.valid_ratio.num < 0 \/ args.valid_ratio.num >= args.valid_ratio.den) =>
    /\ globs = 0
    /\ opens = <<>>
    /\ opened = {}
    /\ ret = <<>>
    /\ pc \in {"assert_ratio", "raised"}
    /\ pc = "raised" => exc = "AssertionError"

C5_Witness ==
  /\ pc = "raised"
  /\ exc = "AssertionError"
  /\ args.valid_ratio.num = args.valid_ratio.den
  /\ fs.listing = StdListing
  /\ globs = 0

\* C6: whatever valid_ratio, shuffle and the permutation drawn, the test_set
\* load returns holds all samples of the test_batch file, in file order, with
\* their own labels.
C6_TestSet ==
  pc = "done" =>
    LET t == fs.content[TestName] IN
    /\ ret[3] = test_set
    /\ test_set.data.rows = t.data
    /\ test_set.data.shape = <<Len(t.data), 32, 32, 3>>
    /\ test_set.data.dtype = args.dtype
    /\ test_set.labels.shape[1] = Len(t.labels)
    /\ Len(test_set.labels.vals) = Len(t.labels)
    /\ \A k \in 1..Len(t.labels) : Encodes(test_set.labels.vals[k], t.labels[k])

C6_Witness ==
  /\ pc = "done"
  /\ args.shuffle
  /\ new_order # [k \in 1..N |-> k - 1]
  /\ M < Len(fs.content[TestName].data)
  /\ test_set.data.rows = fs.content[TestName].data
  /\ Len(test_set.data.rows) >= 1

\* C7: a batch file is opened only after the search found exactly 5 names
\* matching data_batch_*; with another count load ends in an assertion error
\* with no file opened; with 5 matches of which some data_batch_i is absent
\* the count check passes and load ends in a not-found error; neither returns.
C7_GlobCheck ==
  /\ opens # <<>> => (globs = 1 /\ GlobCount = 5)
  /\ (RatioInRange /\ GlobCount # 5) =>
       /\ pc \in {"assert_ratio", "glob", "raised"}
       /\ opens = <<>>
       /\ ret = <<>>
       /\ pc = "raised" => exc = "AssertionError"
  /\ (RatioInRange /\ GlobCount = 5
        /\ \E k \in 1..NumBatches : BatchName(k) \notin fs.listing) =>
       /\ pc # "done"
       /\ ret = <<>>
       /\ pc = "raised" =>
            /\ exc = "FileNotFoundError"
            /\ globs = 1
            /\ Len(opens) < NumBatches
            /\ BatchName(Len(opens) + 1) \notin fs.listing
            /\ \A k \in 1..Len(opens) : opens[k] = BatchName(k)

C7_Witness ==
  /\ pc = "raised"
  /\ exc = "FileNotFoundError"
  /\ GlobCount = 5
  /\ BatchName(3) \notin fs.listing
  /\ opens = <<BatchName(1), BatchName(2)>>

\* C9 (the claim as stated): with one_hot=True and every batch holding samples
\* with labels in [0, num_classes-1], load succeeds and the label matrices of
\* train_set, valid_set and test_set have num_classes columns.
C9_FullWidth ==
  (/\ args.one_hot
   /\ RatioInRange
   /\ fs.listing = StdListing
   /\ \A f \in StdListing : fs.content[f].ok /\ Len(fs.content[f].labels) > 0) =>
    /\ pc # "raised"
    /\ train_set # None =>
         /\ train_set.labels.shape[2] = MaxLabel + 1
         /\ valid_set.labels.shape[2] = MaxLabel + 1
    /\ pc = "done" => test_set.labels.shape[2] = MaxLabel + 1

\* C10: at most one file is open at any time; the files are opened in the
\* order data_batch_1..data_batch_5, test_batch, each closed before the next
\* is opened; no file is open once load has returned or raised.
C10_OneFileOpen ==
  LET order == [k \in 1..(NumBatches + 1) |->
                  IF k <= NumBatches THEN BatchName(k) ELSE TestName]
  IN /\ Cardinality(opened) <= 1
     /\ Len(opens) <= NumBatches + 1
     /\ \A k \in 1..Len(opens) : opens[k] = order[k]
     /\ \A f \in opened : Len(opens) > 0 /\ f = opens[Len(opens)]
     /\ pc \in {"open", "open_test"} => opened = {}
     /\ pc \in {"done", "raised"} => opened = {}

C10_Witness ==
  /\ pc = "raised"
  /\ exc = PickleException
  /\ ~fs.content[BatchName(3)].ok
  /\ Len(opens) = 3
  /\ opened = {}

\* x * n exactly, for a natural number n < 2^15
TimesSmall(x, n) == [x EXCEPT !.mant = Strip(MulSmall(x.mant, n, 0))]

\* |a| <= |b|
MagLE(a, b) ==
  LET s == IF a.scale > b.scale THEN a.scale ELSE b.scale
  IN GE(Strip(ShiftLeft(b.mant, s - b.scale)), Strip(ShiftLeft(a.mant, s - a.scale)))

\* y is (x - mean[ch]) / std[ch] for the decimal mean and std of lines 122-123,
\* up to a relative error of 2^-(Significand32 - 2):
\* |std10 * y - (10 * x - mean10)| * 2^(Significand32 - 2) <= |10 * x - mean10|
Normalized(y, x, ch) ==
  LET want == ExactSub(TimesSmall(x, 10), FloatOfNat(Mean10[ch]))
      diff == ExactSub(TimesSmall(y, Std10[ch]), want)
  IN MagLE([diff EXCEPT !.scale = @ - (Significand32 - 2)], want)

\* C8: preprocess returns the array it was given and that array holds the
\* normalized values (it is mutated in place); every element after a call is
\* (x - mean[ch]) / std[ch] of the element x before it, to float32 precision,
\* and a second call changes every element again: on a tensor of at least one
\* image, twice differs from once.
C8_InPlaceNotIdempotent ==
  LET n == Len(pre.returned)
      t0 == pre.original
      Elems(P(_, _, _, _)) ==
        \A m \in 1..t0.shape[1] : \A r \in 1..t0.shape[2] :
          \A c \in 1..t0.shape[3] : \A ch \in 1..t0.shape[4] : P(m, r, c, ch)
  IN /\ DOMAIN heap = {pre.dataset}
     /\ \A k \in 1..n : pre.returned[k] = pre.dataset
     /\ n >= 1 => heap[pre.dataset] = pre.seen[n]
     /\ n >= 1 =>
          /\ pre.seen[1].shape = t0.shape
          /\ Elems(LAMBDA m, r, c, ch :
               LET x == t0.vals[m][r][c][ch]
                   y == pre.seen[1].vals[m][r][c][ch]
               IN Normalized(y, x, ch) /\ y # x)
          /\ t0.shape[1] >= 1 => pre.seen[1] # t0
     /\ n = 2 =>
          /\ pre.seen[2].shape = t0.shape
          /\ Elems(LAMBDA m, r, c, ch :
               LET x == pre.seen[1].vals[m][r][c][ch]
                   y == pre.seen[2].vals[m][r][c][ch]
               IN Normalized(y, x, ch) /\ y # x)
          /\ t0.shape[1] >= 1 => pre.seen[2] # pre.seen[1]

C8_Witness ==
  /\ Len(pre.returned) = 2
  /\ pre.original.shape = <<1, 2, 2, 3>>
  /\ pre.original.vals[1][1][1][1] = FloatOfNat(37)
  /\ pre.seen[1].vals[1][1][1][1] = [neg |-> TRUE, mant |-> <<26423, 179>>, scale |-> 23]
  /\ pre.seen[2].vals[1][1][1][1] = [neg |-> TRUE, mant |-> <<46709, 128>>, scale |-> 22]
  /\ heap[pre.dataset] = pre.seen[2]
  /\ heap[pre.dataset] # pre.seen[1]

====
